---------------------------- MODULE Spec2Model ----------------------------
(***************************************************************************)
(* Model of the bot service (src/bot-server/app.py) and of the two file    *)
(* stores it reads (src/schema-server/app.py, src/values-server/app.py).   *)
(*                                                                         *)
(* Texts (user input, completions) are sequences of one-character strings. *)
(* JSON values are records [t, n, s, m]:                                   *)
(*   t = "null" | "num" | "str" | "obj"                                    *)
(*   n = the number, s = the characters of the string,                     *)
(*   m = the members of the object, a set of <<key, value>> pairs with     *)
(*       distinct keys (a Python dict)                                     *)
(* The body of an HTTP message is a JSON value or is not JSON at all.      *)
(***************************************************************************)
EXTENDS Integers, Sequences, FiniteSets, TLC

(***************************************************************************)
(* Bounds of the model.                                                    *)
(***************************************************************************)
\* worker slots of the hosting runtime (requests that can be in flight)
NumWorkers == 2
MaxRetries == 3
\* nesting depth of the documents held by the stores
MaxDepth == 2
\* number of filler characters beyond the preview length in the long completion
ExtraLen == 3

Req == 1..NumWorkers

(***************************************************************************)
(* JSON values.                                                            *)
(***************************************************************************)
Null == [t |-> "null", n |-> 0, s |-> <<>>, m |-> {}]
Num(k) == [t |-> "num", n |-> k, s |-> <<>>, m |-> {}]
Str(cs) == [t |-> "str", n |-> 0, s |-> cs, m |-> {}]
Obj(ps) == [t |-> "obj", n |-> 0, s |-> <<>>, m |-> ps]

\* Python's None is what json gives for null
None == Null

HasKey(v, k) == \E p \in v.m : p[1] = k
Get(v, k) == (CHOOSE p \in v.m : p[1] = k)[2]
\* dict.get(k, default)
GetOr(v, k, d) == IF HasKey(v, k) THEN Get(v, k) ELSE d
\* d[k] = x on a dict
Put(ps, k, x) == {p \in ps : p[1] # k} \cup {<<k, x>>}

\* Python truthiness of a JSON value: None, 0, "" and {} are falsy
Truthy(v) ==
    CASE v.t = "null" -> FALSE
      [] v.t = "num" -> v.n # 0
      [] v.t = "str" -> v.s # <<>>
      [] v.t = "obj" -> v.m # {}

(***************************************************************************)
(* Text helpers: str.lower, str.strip, str.find, str.rfind, "in", slices.  *)
(***************************************************************************)
UPPER == <<"A","B","C","D","E","F","G","H","I","J","K","L","M",
           "N","O","P","Q","R","S","T","U","V","W","X","Y","Z">>
LOWER == <<"a","b","c","d","e","f","g","h","i","j","k","l","m",
           "n","o","p","q","r","s","t","u","v","w","x","y","z">>

LowerChar(c) ==
    IF \E i \in 1..Len(UPPER) : UPPER[i] = c
    THEN LOWER[CHOOSE i \in 1..Len(UPPER) : UPPER[i] = c]
    ELSE c

\* str.lower()
Lower(s) == [i \in 1..Len(s) |-> LowerChar(s[i])]

IsLowerAZ(c) == \E i \in 1..Len(LOWER) : LOWER[i] = c

RECURSIVE KeepAZ(_)
\* re.sub(r'[^a-z]', '', s)
KeepAZ(s) ==
    IF s = <<>> THEN <<>>
    ELSE IF IsLowerAZ(Head(s)) THEN <<Head(s)>> \o KeepAZ(Tail(s))
    ELSE KeepAZ(Tail(s))

WS == {" ", "\n", "\t", "\r"}

RECURSIVE LStrip(_)
LStrip(s) == IF s # <<>> /\ Head(s) \in WS THEN LStrip(Tail(s)) ELSE s

RECURSIVE RStrip(_)
RStrip(s) ==
    IF s # <<>> /\ s[Len(s)] \in WS THEN RStrip(SubSeq(s, 1, Len(s) - 1)) ELSE s

\* str.strip()
Strip(s) == RStrip(LStrip(s))

\* w in s
Contains(s, w) ==
    \E i \in 1..(Len(s) - Len(w) + 1) : SubSeq(s, i, i + Len(w) - 1) = w

RECURSIVE FindFrom(_, _, _)
FindFrom(s, c, i) ==
    IF i > Len(s) THEN -1
    ELSE IF s[i] = c THEN i - 1
    ELSE FindFrom(s, c, i + 1)

\* s.find(c): the 0-based index of the first c, or -1
Find(s, c) == FindFrom(s, c, 1)

RECURSIVE RFindFrom(_, _, _)
RFindFrom(s, c, i) ==
    IF i < 1 THEN -1
    ELSE IF s[i] = c THEN i - 1
    ELSE RFindFrom(s, c, i - 1)

\* s.rfind(c): the 0-based index of the last c, or -1
RFind(s, c) == RFindFrom(s, c, Len(s))

\* s[a:b] for 0 <= a and 0 <= b (0-based, b exclusive)
Slice(s, a, b) == SubSeq(s, a + 1, IF b > Len(s) THEN Len(s) ELSE b)

(***************************************************************************)
(* json.loads on a text: objects, strings, non-negative integers, null.    *)
(***************************************************************************)
DIGITS == <<"0","1","2","3","4","5","6","7","8","9">>
IsDigit(c) == \E i \in 1..10 : DIGITS[i] = c
DigitVal(c) == (CHOOSE i \in 1..10 : DIGITS[i] = c) - 1

\* a parse step: ok, the value read, and the position after it
Fail == [ok |-> FALSE, v |-> Null, i |-> 0]
Good(v, i) == [ok |-> TRUE, v |-> v, i |-> i]

RECURSIVE SkipWs(_, _)
SkipWs(s, i) == IF i <= Len(s) /\ s[i] \in WS THEN SkipWs(s, i + 1) ELSE i

RECURSIVE StringEnd(_, _)
\* position of the closing quote of the string whose content starts at i, or 0
\* (a control character or a backslash escape inside is not accepted here)
StringEnd(s, i) ==
    IF i > Len(s) THEN 0
    ELSE IF s[i] = "\"" THEN i
    ELSE IF s[i] \in {"\n", "\t", "\r", "\\"} THEN 0
    ELSE StringEnd(s, i + 1)

ParseString(s, i) ==
    IF i > Len(s) \/ s[i] # "\"" THEN Fail
    ELSE LET j == StringEnd(s, i + 1)
         IN IF j = 0 THEN Fail ELSE Good(Str(SubSeq(s, i + 1, j - 1)), j + 1)

RECURSIVE DigitsEnd(_, _)
DigitsEnd(s, i) == IF i <= Len(s) /\ IsDigit(s[i]) THEN DigitsEnd(s, i + 1) ELSE i

RECURSIVE DigitsVal(_, _, _, _)
DigitsVal(s, i, j, acc) ==
    IF i >= j THEN acc ELSE DigitsVal(s, i + 1, j, 10 * acc + DigitVal(s[i]))

\* JSON number: 0, or a non-zero digit followed by digits
ParseNumber(s, i) ==
    IF i > Len(s) \/ ~IsDigit(s[i]) THEN Fail
    ELSE IF s[i] = "0" THEN Good(Num(0), i + 1)
    ELSE LET j == DigitsEnd(s, i) IN Good(Num(DigitsVal(s, i, j, 0)), j)

ParseNull(s, i) ==
    IF i + 3 <= Len(s) /\ SubSeq(s, i, i + 3) = <<"n","u","l","l">>
    THEN Good(Null, i + 4) ELSE Fail

RECURSIVE ParseValue(_, _)
RECURSIVE ParseMembers(_, _, _)

\* the members of an object from position i (a key is expected there)
ParseMembers(s, i, acc) ==
    LET k == ParseString(s, i) IN
    IF ~k.ok THEN Fail ELSE
    LET c == SkipWs(s, k.i) IN
    IF c > Len(s) \/ s[c] # ":" THEN Fail ELSE
    LET x == ParseValue(s, SkipWs(s, c + 1)) IN
    IF ~x.ok THEN Fail ELSE
    LET e == SkipWs(s, x.i)
        got == Put(acc, k.v.s, x.v) IN
    IF e > Len(s) THEN Fail
    ELSE IF s[e] = "}" THEN Good(Obj(got), e + 1)
    ELSE IF s[e] = "," THEN ParseMembers(s, SkipWs(s, e + 1), got)
    ELSE Fail

ParseObject(s, i) ==
    LET j == SkipWs(s, i + 1) IN
    IF j > Len(s) THEN Fail
    ELSE IF s[j] = "}" THEN Good(Obj({}), j + 1)
    ELSE ParseMembers(s, j, {})

ParseValue(s, i) ==
    IF i > Len(s) THEN Fail
    ELSE IF s[i] = "{" THEN ParseObject(s, i)
    ELSE IF s[i] = "\"" THEN ParseString(s, i)
    ELSE IF IsDigit(s[i]) THEN ParseNumber(s, i)
    ELSE ParseNull(s, i)

\* json.loads(s): [ok, v]; ok = FALSE stands for json.JSONDecodeError
Loads(s) ==
    LET r == ParseValue(s, SkipWs(s, 1)) IN
    IF r.ok /\ SkipWs(s, r.i) > Len(s) THEN [ok |-> TRUE, v |-> r.v]
    ELSE [ok |-> FALSE, v |-> Null]


(***************************************************************************)
(* json.dumps(v, indent=2): how the edit prompt renders a document, and    *)
(* the text a provider that echoes the document sends back.                *)
(***************************************************************************)
RECURSIVE NumText(_)
NumText(k) == IF k < 10 THEN <<DIGITS[k + 1]>> ELSE NumText(k \div 10) \o <<DIGITS[(k % 10) + 1]>>

Indent(level) == [i \in 1..(2 * level) |-> " "]

RECURSIVE Dumps(_, _)
RECURSIVE DumpMembers(_, _)

\* the members one per line, each indented, separated by commas
DumpMembers(ps, level) ==
    LET p == CHOOSE q \in ps : TRUE
        item == Indent(level) \o <<"\"">> \o p[1] \o <<"\"", ":", " ">> \o Dumps(p[2], level)
    IN IF ps = {p} THEN item
       ELSE item \o <<",", "\n">> \o DumpMembers(ps \ {p}, level)

Dumps(v, level) ==
    CASE v.t = "null" -> <<"n","u","l","l">>
      [] v.t = "num" -> NumText(v.n)
      [] v.t = "str" -> <<"\"">> \o v.s \o <<"\"">>
      [] v.t = "obj" ->
            IF v.m = {} THEN <<"{", "}">>
            ELSE <<"{", "\n">> \o DumpMembers(v.m, level + 1)
                 \o <<"\n">> \o Indent(level) \o <<"}">>

(***************************************************************************)
(* The closed set of applications and their keywords.                      *)
(***************************************************************************)
Apps == {"chat", "matchmaking", "tournament"}

chat == <<"c","h","a","t">>
matchmaking == <<"m","a","t","c","h","m","a","k","i","n","g">>
tournament == <<"t","o","u","r","n","a","m","e","n","t">>

\* the result of identify_application when no application is identified
NotIdentified == "none"

\* a priority order that checks chat first
KeywordMatchChatFirst(s) ==
    IF Contains(s, chat) THEN "chat"
    ELSE IF Contains(s, matchmaking) THEN "matchmaking"
    ELSE IF Contains(s, tournament) THEN "tournament"
    ELSE NotIdentified

\* the ordered substring checks of identify_application
KeywordMatch(s) ==
    IF Contains(s, tournament) THEN "tournament"
    ELSE IF Contains(s, matchmaking) THEN "matchmaking"
    ELSE IF Contains(s, chat) THEN "chat"
    ELSE NotIdentified

(***************************************************************************)
(* HTTP: an answer is a transport failure, or a status with a body that   *)
(* is a JSON value or is not JSON.                                         *)
(***************************************************************************)
HttpJson(status, v) == [net |-> "ok", status |-> status, json |-> TRUE, val |-> v]
HttpText(status) == [net |-> "ok", status |-> status, json |-> FALSE, val |-> Null]
NetFail(why) == [net |-> why, status |-> 0, json |-> FALSE, val |-> Null]

TransportFailures == {NetFail("unreachable"), NetFail("timeout")}

K_error == <<"e","r","r","o","r">>
K_details == <<"d","e","t","a","i","l","s">>
K_hint == <<"h","i","n","t">>
K_input == <<"i","n","p","u","t">>
K_response == <<"r","e","s","p","o","n","s","e">>

(***************************************************************************)
(* The two stores: one file per application, read on every lookup.         *)
(***************************************************************************)
Missing == [kind |-> "missing", v |-> Null]
Invalid == [kind |-> "invalid", v |-> Null]
Unreadable == [kind |-> "unreadable", v |-> Null]
File(v) == [kind |-> "json", v |-> v]

FileOf(files, app_name) == IF app_name \in DOMAIN files THEN files[app_name] ELSE Missing

\* schema-server get_schema
get_schema(files, app_name) ==
    LET f == FileOf(files, app_name) IN
    CASE f.kind = "missing" ->
            HttpJson(404, Obj({<<K_error, Str(<<"Schema not found for application: ", app_name>>)>>}))
      [] f.kind = "invalid" ->
            HttpJson(500, Obj({<<K_error, Str(<<"Invalid JSON in schema file: ", "JSONDecodeError">>)>>}))
      [] f.kind = "unreadable" ->
            HttpJson(500, Obj({<<K_error, Str(<<"Internal server error: ", "OSError">>)>>}))
      [] f.kind = "json" -> HttpJson(200, f.v)

\* values-server get_values
get_values(files, app_name) ==
    LET f == FileOf(files, app_name) IN
    CASE f.kind = "missing" ->
            HttpJson(404, Obj({<<K_error, Str(<<"Values not found for application: ", app_name>>)>>}))
      [] f.kind = "invalid" ->
            HttpJson(500, Obj({<<K_error, Str(<<"Invalid JSON in values file: ", "JSONDecodeError">>)>>}))
      [] f.kind = "unreadable" ->
            HttpJson(500, Obj({<<K_error, Str(<<"Internal server error: ", "OSError">>)>>}))
      [] f.kind = "json" -> HttpJson(200, f.v)


(***************************************************************************)
(* The responses of POST /message: a status and a JSON body.               *)
(***************************************************************************)
Resp(status, body) == [status |-> status, body |-> body]
NoResponse == Resp(0, Null)

MissingInput == Resp(400, Obj({<<K_error, Str(<<"Missing \"input\" field in request">>)>>}))

CouldNotIdentify ==
    Resp(400, Obj({<<K_error, Str(<<"Could not identify application from request">>)>>,
                   <<K_hint, Str(<<"Please mention one of: chat, matchmaking, or tournament">>)>>}))

SchemaNotFound(app, details) ==
    Resp(404, Obj({<<K_error, Str(<<"Could not fetch schema for ", app>>)>>,
                   <<K_details, details>>}))

ValuesNotFound(app, details) ==
    Resp(404, Obj({<<K_error, Str(<<"Could not fetch values for ", app>>)>>,
                   <<K_details, details>>}))

EditFailed ==
    Resp(500, Obj({<<K_error, Str(<<"Failed to apply configuration change">>)>>,
                   <<K_hint, Str(<<"The LLM could not parse or apply your request">>)>>}))

CommunicationError(e) == Resp(500, Obj({<<K_error, Str(<<"Service communication error: ", e>>)>>}))

InternalError(e) == Resp(500, Obj({<<K_error, Str(<<"Internal server error: ", e>>)>>}))

(***************************************************************************)
(* Library behaviour that depends on the installed versions: each is a     *)
(* choice made where the call happens.                                     *)
(*   flask: request.get_json() on a body that is not JSON returns None     *)
(*          ("none") or raises an HTTP error ("raises")                    *)
(*   requests: Response.json() on a body that is not JSON raises           *)
(*          requests' JSONDecodeError, a RequestException that is also     *)
(*          json.JSONDecodeError ("requests+json"), the same over          *)
(*          simplejson ("requests"), json.JSONDecodeError alone ("json"),  *)
(*          or another ValueError ("value")                                *)
(***************************************************************************)
FlaskBuilds == {"none", "raises"}
JsonErrors == {"requests+json", "requests", "json", "value"}

NoError == "no error"

\* the error Response.json() can raise on an answer: none when the body is JSON
JsonErrorsOn(ans) == IF ans.net = "ok" /\ ~ans.json THEN JsonErrors ELSE {NoError}

\* the edit step reads the body of a 200 answer only (lines 194-195)
EditJsonErrors(ans) == IF ans.net = "ok" /\ ans.status = 200 THEN JsonErrorsOn(ans) ELSE {NoError}

IsRequestException(e) == e \in {"requests+json", "requests"}
IsJSONDecodeError(e) == e \in {"requests+json", "json"}

(***************************************************************************)
(* identify_application, in its two halves: the keyword checks on the      *)
(* input, and the reading of the provider's answer to the classification   *)
(* prompt.                                                                 *)
(***************************************************************************)
\* lines 81-91
identify_keyword(user_input) == KeywordMatch(Lower(user_input))

\* the completion is matched without the cleaning of line 120
identify_from_answer_uncleaned(ans) ==
    IF ans.net # "ok" THEN NotIdentified
    ELSE IF ans.status # 200 THEN NotIdentified
    ELSE IF ~ans.json THEN NotIdentified
    ELSE IF ans.val.t # "obj" THEN NotIdentified
    ELSE LET text == GetOr(ans.val, K_response, Str(<<>>)) IN
         IF text.t # "str" THEN NotIdentified
         ELSE KeywordMatch(Lower(Strip(text.s)))

\* lines 101-140: every failure inside the try ends in None
identify_from_answer(ans) ==
    IF ans.net # "ok" THEN NotIdentified
    ELSE IF ans.status # 200 THEN NotIdentified
    ELSE IF ~ans.json THEN NotIdentified
    ELSE IF ans.val.t # "obj" THEN NotIdentified
    ELSE LET text == GetOr(ans.val, K_response, Str(<<>>)) IN
         IF text.t # "str" THEN NotIdentified
         ELSE KeywordMatch(KeepAZ(Lower(Strip(text.s))))

(***************************************************************************)
(* apply_configuration_change, from the provider's answer on.              *)
(* The result is [raised, ret, diag, preview]: raised when an exception    *)
(* leaves the function, ret the value returned (None on the handled        *)
(* failures), diag the branch that printed, preview what line 217 prints.  *)
(***************************************************************************)
PreviewLen == 500

\* the default of wait_for_ollama's max_retries (line 14)
DefaultMaxRetries == 30

Edited(ret, diag, preview) == [raised |-> FALSE, ret |-> ret, diag |-> diag, preview |-> preview]
EditRaised == [raised |-> TRUE, ret |-> None, diag |-> "unbound", preview |-> <<>>]

\* the slice is taken as soon as a '{' is found
extract_json_open_only(json_response) ==
    LET start_idx == Find(json_response, "{")
        end_idx == RFind(json_response, "}")
    IN IF start_idx # -1
       THEN LET parsed == Loads(Slice(json_response, start_idx, end_idx + 1))
            IN IF parsed.ok THEN Edited(parsed.v, "parsed", <<>>)
               ELSE Edited(None, "malformed", Slice(json_response, 0, PreviewLen))
       ELSE Edited(None, "nojson", <<>>)

\* the slice ends at the first '}'
extract_json_first_close(json_response) ==
    LET start_idx == Find(json_response, "{")
        end_idx == Find(json_response, "}")
    IN IF start_idx # -1 /\ end_idx # -1
       THEN LET parsed == Loads(Slice(json_response, start_idx, end_idx + 1))
            IN IF parsed.ok THEN Edited(parsed.v, "parsed", <<>>)
               ELSE Edited(None, "malformed", Slice(json_response, 0, PreviewLen))
       ELSE Edited(None, "nojson", <<>>)

\* lines 198-209 and 215-218, on the stripped completion text
extract_json(json_response) ==
    LET start_idx == Find(json_response, "{")
        end_idx == RFind(json_response, "}")
    IN IF start_idx # -1 /\ end_idx # -1
       THEN LET parsed == Loads(Slice(json_response, start_idx, end_idx + 1))
            IN IF parsed.ok THEN Edited(parsed.v, "parsed", <<>>)
               ELSE Edited(None, "malformed", Slice(json_response, 0, PreviewLen))
       ELSE Edited(None, "nojson", <<>>)

\* an edit step whose transport failure is not caught at line 219 and leaves the function
apply_configuration_change_unguarded(ans, jsonError) ==
    IF ans.net # "ok" THEN EditRaised
    ELSE IF ans.status # 200 THEN Edited(None, "provider", <<>>)
    ELSE IF ~ans.json
         THEN IF IsJSONDecodeError(jsonError) THEN EditRaised
              ELSE Edited(None, "exception", <<>>)
    ELSE IF ans.val.t # "obj" THEN Edited(None, "exception", <<>>)
    ELSE LET text == GetOr(ans.val, K_response, Str(<<>>)) IN
         IF text.t # "str" THEN Edited(None, "exception", <<>>)
         ELSE extract_json(Strip(text.s))

\* lines 179-221
apply_configuration_change(ans, jsonError) ==
    IF ans.net # "ok" THEN Edited(None, "exception", <<>>)
    ELSE IF ans.status # 200 THEN Edited(None, "provider", <<>>)
    ELSE IF ~ans.json
         THEN \* response.json() raises before json_response is bound: the handler of
              \* line 215 then fails on line 217, and that error leaves the function
              IF IsJSONDecodeError(jsonError) THEN EditRaised
              ELSE Edited(None, "exception", <<>>)
    ELSE IF ans.val.t # "obj" THEN Edited(None, "exception", <<>>)
    ELSE LET text == GetOr(ans.val, K_response, Str(<<>>)) IN
         IF text.t # "str" THEN Edited(None, "exception", <<>>)
         ELSE extract_json(Strip(text.s))


(***************************************************************************)
(* The inputs the model draws from.                                        *)
(***************************************************************************)
\* user texts: a first fragment followed by a second one
InputHeads == {<<>>, chat, <<"C","H","A","T">>, matchmaking, <<"m","a","t","c">>}
InputTails == {<<>>, <<" ","T","o","u","r","n","a","m","e","n","t">>, <<"h","a","t">>,
               <<" ">> \o chat}
UserTexts == {a \o b : a \in InputHeads, b \in InputTails}

\* a request body: a JSON value, or no JSON at all
NoJsonBody == [json |-> FALSE, val |-> Null]
JsonBody(v) == [json |-> TRUE, val |-> v]
NoRequest == [json |-> FALSE, val |-> Str(<<"-">>)]

RequestBodies ==
    {JsonBody(Obj({<<K_input, Str(t)>>})) : t \in UserTexts}
    \cup {NoJsonBody, JsonBody(Null), JsonBody(Obj({})), JsonBody(Num(0)), JsonBody(Num(5)),
          JsonBody(Str(chat)), JsonBody(Str(<<"n","o"," ">> \o K_input)),
          JsonBody(Obj({<<chat, Num(1)>>})),
          JsonBody(Obj({<<K_input, Num(5)>>})), JsonBody(Obj({<<K_input, Null>>}))}

\* completions of the classification prompt
ClassifyHeads == {<<>>, <<" ">> \o chat, <<"M","a","t","c","h","-","M","a","k","i","n","g">>,
                  <<"t","o","u","r","n","a","\n">>}
ClassifyTails == {<<>>, <<"m","e","n","t",".">>, <<" ","c",".","h",".","a",".","t","\n">>,
                  <<" ","T","O","U","R","N","A","M","E","N","T">>}
ClassifyTexts == {a \o b : a \in ClassifyHeads, b \in ClassifyTails}

Completion(text) == HttpJson(200, Obj({<<K_response, Str(text)>>}))

\* answers of the provider that carry no completion text
ProviderFaults ==
    TransportFailures
    \cup {HttpJson(500, Obj({<<K_error, Str(<<"model not found">>)>>})), HttpText(502),
          HttpText(200), HttpJson(200, Num(5)), HttpJson(200, Obj({})),
          HttpJson(200, Obj({<<K_response, Num(5)>>}))}

ClassifyAnswers == {Completion(t) : t \in ClassifyTexts} \cup ProviderFaults

\* documents a store file can hold: a flat document, nested under "a" up to MaxDepth
RECURSIVE Nest(_, _)
Nest(d, k) == IF k = 0 THEN d ELSE Obj({<<<<"a">>, Nest(d, k - 1)>>})

FlatDocs == {Obj({}), Obj({<<<<"a">>, Num(1)>>}),
             Obj({<<<<"a">>, Num(512)>>, <<<<"b">>, Str(<<"}", "{">>)>>})}
Docs == {Nest(d, k) : d \in FlatDocs, k \in 0..(MaxDepth - 1)}

SchemaDoc == Obj({<<<<"t","y","p","e">>, Str(<<"o","b","j","e","c","t">>)>>})

SchemaLayouts ==
    {[a \in Apps |-> File(SchemaDoc)],
     [a \in Apps |-> IF a = "chat" THEN Missing
                     ELSE IF a = "matchmaking" THEN Invalid ELSE Unreadable]}

ValuesLayouts ==
    {[a \in Apps |-> File(d)] : d \in Docs}
    \cup {[a \in Apps |-> IF a = "chat" THEN Unreadable
                          ELSE IF a = "matchmaking" THEN Missing ELSE Invalid]}

\* answers to a store lookup that do not come from the store's handler
StrayAnswers ==
    {HttpText(502), HttpText(404), HttpText(200),
     HttpJson(503, Obj({<<K_error, Str(<<"busy">>)>>}))}

\* completions of the edit prompt: prose, a body, prose
LongText == <<"{">> \o [i \in 1..(PreviewLen + ExtraLen) |-> "x"] \o <<"}">>
EditHeads == {<<>>, <<"H","i",":","\n">>, <<"{"," ">>}
EditTails == {<<>>, <<"\n","D","o","n","e",".">>, <<" ","}">>}
EditBodies ==
    {<<"{","\"","a","\"",":","1","}">>,
     <<"{","\"","a","\"",":"," ","{","\"","b","\"",":","2","}","}">>,
     <<"n","o"," ","b","r","a","c","e","s">>,
     <<"{"," ","m","a","l","f","o","r","m","e","d">>,
     <<"{","m","}">>,
     <<"}"," ","{">>,
     <<"{","\"","a","\"",":","1",",","}">>,
     <<"{","\"","a","\"",":","1","}"," ","{","\"","b","\"",":","2","}">>,
     LongText}

\* the provider may also echo the current document, as the prompt renders it
EditTexts(current) ==
    {h \o b \o t : h \in EditHeads, b \in EditBodies \cup {Dumps(current, 0)}, t \in EditTails}

EditAnswers(current) == {Completion(t) : t \in EditTexts(current)} \cup ProviderFaults

\* line 238: what request.get_json() gives: the parsed body, None when there is none; raised when the build
\* of flask answers a body that is not JSON with an error
NoData == [raised |-> FALSE, val |-> Str(<<"-">>)]
get_json(body, flask) ==
    IF body.json THEN [raised |-> FALSE, val |-> body.val]
    ELSE [raised |-> flask = "raises", val |-> None]

\* the samples drawn from when several requests are handled side by side
FewBodies ==
    {JsonBody(Obj({<<K_input, Str(chat)>>})), JsonBody(Obj({<<K_input, Str(<<"m","a","t","c">>)>>})),
     JsonBody(Obj({}))}
FewClassifyAnswers ==
    {Completion(<<"t","o","u","r","n","a","\n","m","e","n","t",".">>),
     Completion(<<"M","a","t","c","h","-","M","a","k","i","n","g">>), NetFail("timeout")}
FewEditAnswers(current) ==
    {Completion(<<"H","i",":","\n">> \o Dumps(current, 0)),
     Completion(<<"{","\"","a","\"",":","1","}">>),
     HttpText(502)}

\* the provider's answers to the readiness probe (GET /api/tags)
Ready == HttpJson(200, Obj({}))
ProbeAnswers == {Ready, HttpText(503), HttpText(404)} \cup TransportFailures

\* the provider's answers to the pull: a stream of JSON lines, a stream with a line
\* that is not JSON, or no answer
PullAnswers == {HttpJson(200, Obj({})), HttpText(200)} \cup TransportFailures

\* the values of max_retries the wait is run with: main passes the default
RetryCounts == (0..MaxRetries) \cup {DefaultMaxRetries}

\* a Values Store whose documents differ by application
ValuesByApp ==
    [a \in Apps |-> IF a = "chat" THEN File(Obj({<<<<"a">>, Num(512)>>}))
                    ELSE IF a = "matchmaking" THEN File(Obj({})) ELSE Missing]

(***************************************************************************)
(* State.                                                                  *)
(***************************************************************************)
VARIABLES
    schemaFiles,      \* Schema Store: application -> file
    valuesFiles,      \* Values Store: application -> file
    pc,               \* per worker: where its request stands
    request,          \* per worker: the body of the request being handled
    json_data,        \* per worker: what request.get_json() did on that body
    user_input,       \* per worker: data['input']
    app_name,         \* per worker: the identifier resolved
    schema,           \* per worker: the Schema Document fetched
    current_values,   \* per worker: the Values Document fetched
    updated_values,   \* per worker: what apply_configuration_change returned
    diag,             \* per worker: [kind, preview] printed by the edit step
    response,         \* per worker: the response sent
    calls,            \* per worker: the outbound calls of the request, in order
    startup           \* the main block: where it stands, and the locals of wait_for_ollama

stores == <<schemaFiles, valuesFiles>>
locals == <<request, json_data, user_input, app_name, schema, current_values, updated_values, diag>>
vars == <<schemaFiles, valuesFiles, pc, request, json_data, user_input, app_name, schema,
          current_values, updated_values, diag, response, calls, startup>>

NoDiag == [kind |-> "none", preview |-> <<>>]
\* a call and its answer; err is the error Response.json() raised on the answer to the
\* code around the call, NoError when it raised none or was not reached
Call(svc, op, key, ans, err) == [svc |-> svc, op |-> op, key |-> key, ans |-> ans, err |-> err]

Fresh ==
    /\ request = [r \in Req |-> NoRequest]
    /\ json_data = [r \in Req |-> NoData]
    /\ user_input = [r \in Req |-> Null]
    /\ app_name = [r \in Req |-> NotIdentified]
    /\ schema = [r \in Req |-> Null]
    /\ current_values = [r \in Req |-> Null]
    /\ updated_values = [r \in Req |-> None]
    /\ diag = [r \in Req |-> NoDiag]
    /\ response = [r \in Req |-> NoResponse]
    /\ calls = [r \in Req |-> <<>>]

\* the main block: pc where it stands; max_retries, i and last (the response of the
\* latest probe) of wait_for_ollama; probes and sleeps count its requests.get and
\* time.sleep calls; ready is what it returned, pulled what ensure_model_pulled returned
Main(at, max_retries, i, probes, sleeps, last, ready, pulled) ==
    [pc |-> at, max_retries |-> max_retries, i |-> i, probes |-> probes, sleeps |-> sleeps,
     last |-> last, ready |-> ready, pulled |-> pulled]
NotYet == "not yet"
NoAnswer == NetFail("no call")

\* app.run serves: the wait found the provider ready at its first probe and the model
\* was there
Serving == Main("listening", DefaultMaxRetries, 0, 1, 0, Ready, "true", "true")

\* one worker serves requests one after the other
Init ==
    /\ schemaFiles \in SchemaLayouts
    /\ valuesFiles \in ValuesLayouts
    /\ pc = [r \in Req |-> IF r = 1 THEN "idle" ELSE "off"]
    /\ startup = Serving
    /\ Fresh

\* every worker serves: requests are handled side by side
InitConcurrent ==
    /\ schemaFiles = [a \in Apps |-> File(SchemaDoc)]
    /\ valuesFiles = ValuesByApp
    /\ pc = [r \in Req |-> "idle"]
    /\ startup = Serving
    /\ Fresh

SideBySide == \A r \in Req : pc[r] # "off"

(***************************************************************************)
(* What the callers and the collaborators offer at each step. When the     *)
(* workers serve side by side the requests and answers come from the       *)
(* samples above, so that every interleaving of them is walked.            *)
(***************************************************************************)
SchemaAnswers(app) == {get_schema(schemaFiles, app)} \cup TransportFailures \cup StrayAnswers
ValuesAnswers(app) == {get_values(valuesFiles, app)} \cup TransportFailures \cup StrayAnswers

BodiesOffered == IF SideBySide THEN FewBodies ELSE RequestBodies
ClassifyOffered == IF SideBySide THEN FewClassifyAnswers ELSE ClassifyAnswers
SchemaOffered(app) ==
    IF SideBySide THEN {get_schema(schemaFiles, app), NetFail("timeout")} ELSE SchemaAnswers(app)
ValuesOffered(app) ==
    IF SideBySide THEN {get_values(valuesFiles, app), NetFail("unreachable")} ELSE ValuesAnswers(app)
EditOffered(current) == IF SideBySide THEN FewEditAnswers(current) ELSE EditAnswers(current)


(***************************************************************************)
(* handle_message, one action per stretch of code between outbound calls.  *)
(***************************************************************************)
\* lines 238-245 and 81-93: [next, response, user_input, app_name]
Outcome(next, resp, input, app) ==
    [next |-> next, response |-> resp, user_input |-> input, app_name |-> app]
Reply(resp) == Outcome("done", resp, Null, NotIdentified)

\* request.get_json(), the input check, and the keyword half of identify_application
receive(body, flask) ==
    IF ~body.json /\ flask = "raises" THEN Reply(InternalError("UnsupportedMediaType"))
    ELSE LET data == IF body.json THEN body.val ELSE None IN
    IF ~Truthy(data) THEN Reply(MissingInput)
    ELSE IF data.t = "num" THEN Reply(InternalError("TypeError"))
    ELSE IF data.t = "str"
         THEN IF ~Contains(data.s, K_input) THEN Reply(MissingInput)
              ELSE Reply(InternalError("TypeError"))
    ELSE IF ~HasKey(data, K_input) THEN Reply(MissingInput)
    ELSE LET input == Get(data, K_input) IN
         IF input.t # "str" THEN Outcome("done", InternalError("AttributeError"), input, NotIdentified)
         ELSE LET app == identify_keyword(input.s) IN
              IF app # NotIdentified THEN Outcome("schema", NoResponse, input, app)
              ELSE Outcome("classify", NoResponse, input, NotIdentified)

\* lines 237-245 (and 81-93 of identify_application)
ReceiveRequest(r) ==
    /\ pc[r] = "idle"
    /\ \E body \in BodiesOffered, flask \in FlaskBuilds :
       LET o == receive(body, flask) IN
        /\ pc' = [pc EXCEPT ![r] = o.next]
        /\ request' = [request EXCEPT ![r] = body]
        /\ json_data' = [json_data EXCEPT ![r] = get_json(body, flask)]
        /\ user_input' = [user_input EXCEPT ![r] = o.user_input]
        /\ app_name' = [app_name EXCEPT ![r] = o.app_name]
        /\ response' = [response EXCEPT ![r] = o.response]
    /\ UNCHANGED <<stores, startup, schema, current_values, updated_values, diag, calls>>

\* a classification call whose transport failure is not caught in identify_application
\* and reaches the handler of line 284
ClassifyCallUncaught(r) ==
    /\ pc[r] = "classify"
    /\ \E ans \in ClassifyOffered :
       LET app == identify_from_answer(ans) IN
        /\ calls' = [calls EXCEPT ![r] = Append(@, Call("provider", "classify", "", ans, NoError))]
        /\ app_name' = [app_name EXCEPT ![r] = app]
        /\ IF app = NotIdentified
           THEN /\ response' = [response EXCEPT ![r] =
                        IF ans.net # "ok" THEN CommunicationError(ans.net)
                        ELSE CouldNotIdentify]
                /\ pc' = [pc EXCEPT ![r] = "done"]
           ELSE /\ pc' = [pc EXCEPT ![r] = "schema"]
                /\ UNCHANGED response
    /\ UNCHANGED <<stores, startup, request, json_data, user_input, schema, current_values, updated_values, diag>>

\* a classification that is tried again when the provider gave no answer
ClassifyCallRetrying(r) ==
    /\ pc[r] = "classify"
    /\ \E ans \in ClassifyOffered :
       LET app == identify_from_answer(ans) IN
        /\ calls' = [calls EXCEPT ![r] = Append(@, Call("provider", "classify", "", ans, NoError))]
        /\ app_name' = [app_name EXCEPT ![r] = app]
        /\ IF ans.net # "ok" /\ calls[r] = <<>>
           THEN UNCHANGED <<pc, response>>
           ELSE IF app = NotIdentified
           THEN /\ response' = [response EXCEPT ![r] = CouldNotIdentify]
                /\ pc' = [pc EXCEPT ![r] = "done"]
           ELSE /\ pc' = [pc EXCEPT ![r] = "schema"]
                /\ UNCHANGED response
    /\ UNCHANGED <<stores, startup, request, json_data, user_input, schema, current_values, updated_values, diag>>

\* lines 101-140 and 246-250: the classification call and what follows from its answer
ClassifyCall(r) ==
    /\ pc[r] = "classify"
    /\ \E ans \in ClassifyOffered :
       LET app == identify_from_answer(ans) IN
        /\ calls' = [calls EXCEPT ![r] = Append(@, Call("provider", "classify", "", ans, NoError))]
        /\ app_name' = [app_name EXCEPT ![r] = app]
        /\ IF app = NotIdentified
           THEN /\ response' = [response EXCEPT ![r] = CouldNotIdentify]
                /\ pc' = [pc EXCEPT ![r] = "done"]
           ELSE /\ pc' = [pc EXCEPT ![r] = "schema"]
                /\ UNCHANGED response
    /\ UNCHANGED <<stores, startup, request, json_data, user_input, schema, current_values, updated_values, diag>>

\* what a store lookup makes of the answer: [ok, doc, response]
Fetched(doc) == [ok |-> TRUE, doc |-> doc, response |-> NoResponse]
NotFetched(resp) == [ok |-> FALSE, doc |-> Null, response |-> resp]

\* the error of Response.json() on a body that is not JSON, as lines 284-287 report it
JsonFailure(jsonError) ==
    IF IsRequestException(jsonError) THEN CommunicationError("JSONDecodeError")
    ELSE InternalError("JSONDecodeError")

\* a lookup that goes on whatever the status of the answer
fetch_schema_any_status(app, ans, jsonError) ==
    IF ans.net # "ok" THEN NotFetched(CommunicationError(ans.net))
    ELSE IF ~ans.json THEN NotFetched(JsonFailure(jsonError))
    ELSE Fetched(ans.val)

\* lines 253-260 with 284-287
fetch_schema(app, ans, jsonError) ==
    IF ans.net # "ok" THEN NotFetched(CommunicationError(ans.net))
    ELSE IF ~ans.json THEN NotFetched(JsonFailure(jsonError))
    ELSE IF ans.status # 200 THEN NotFetched(SchemaNotFound(app, ans.val))
    ELSE Fetched(ans.val)

\* a values lookup that goes on whatever the status of the answer
fetch_values_any_status(app, ans, jsonError) ==
    IF ans.net # "ok" THEN NotFetched(CommunicationError(ans.net))
    ELSE IF ~ans.json THEN NotFetched(JsonFailure(jsonError))
    ELSE Fetched(ans.val)

\* lines 263-270 with 284-287
fetch_values(app, ans, jsonError) ==
    IF ans.net # "ok" THEN NotFetched(CommunicationError(ans.net))
    ELSE IF ~ans.json THEN NotFetched(JsonFailure(jsonError))
    ELSE IF ans.status # 200 THEN NotFetched(ValuesNotFound(app, ans.val))
    ELSE Fetched(ans.val)


\* lines 252-260
FetchSchema(r) ==
    /\ pc[r] = "schema"
    /\ \E ans \in SchemaOffered(app_name[r]) : \E jsonError \in JsonErrorsOn(ans) :
       LET f == fetch_schema(app_name[r], ans, jsonError) IN
        /\ calls' = [calls EXCEPT ![r] = Append(@, Call("schema", "get", app_name[r], ans, jsonError))]
        /\ schema' = [schema EXCEPT ![r] = f.doc]
        /\ response' = [response EXCEPT ![r] = f.response]
        /\ pc' = [pc EXCEPT ![r] = IF f.ok THEN "values" ELSE "done"]
    /\ UNCHANGED <<stores, startup, request, json_data, user_input, app_name, current_values, updated_values, diag>>

\* a values lookup keyed by a fixed application, not by the identifier resolved
FetchValuesFixedKey(r) ==
    /\ pc[r] = "values"
    /\ \E ans \in ValuesOffered("chat") : \E jsonError \in JsonErrorsOn(ans) :
       LET f == fetch_values("chat", ans, jsonError) IN
        /\ calls' = [calls EXCEPT ![r] = Append(@, Call("values", "get", "chat", ans, jsonError))]
        /\ current_values' = [current_values EXCEPT ![r] = f.doc]
        /\ response' = [response EXCEPT ![r] = f.response]
        /\ pc' = [pc EXCEPT ![r] = IF f.ok THEN "edit" ELSE "done"]
    /\ UNCHANGED <<stores, startup, request, json_data, user_input, app_name, schema, updated_values, diag>>

\* the identifier kept in one name shared by the workers: the lookup reads what any
\* of them resolved
FetchValuesSharedName(r) ==
    /\ pc[r] = "values"
    /\ \E q \in Req :
        /\ app_name[q] # NotIdentified
        /\ \E ans \in ValuesOffered(app_name[q]) : \E jsonError \in JsonErrorsOn(ans) :
           LET f == fetch_values(app_name[q], ans, jsonError) IN
            /\ calls' = [calls EXCEPT ![r] = Append(@, Call("values", "get", app_name[q], ans, jsonError))]
            /\ current_values' = [current_values EXCEPT ![r] = f.doc]
            /\ response' = [response EXCEPT ![r] = f.response]
            /\ pc' = [pc EXCEPT ![r] = IF f.ok THEN "edit" ELSE "done"]
    /\ UNCHANGED <<stores, startup, request, json_data, user_input, app_name, schema, updated_values, diag>>

\* lines 262-270
FetchValues(r) ==
    /\ pc[r] = "values"
    /\ \E ans \in ValuesOffered(app_name[r]) : \E jsonError \in JsonErrorsOn(ans) :
       LET f == fetch_values(app_name[r], ans, jsonError) IN
        /\ calls' = [calls EXCEPT ![r] = Append(@, Call("values", "get", app_name[r], ans, jsonError))]
        /\ current_values' = [current_values EXCEPT ![r] = f.doc]
        /\ response' = [response EXCEPT ![r] = f.response]
        /\ pc' = [pc EXCEPT ![r] = IF f.ok THEN "edit" ELSE "done"]
    /\ UNCHANGED <<stores, startup, request, json_data, user_input, app_name, schema, updated_values, diag>>

\* what the caller gets when an exception leaves handle_message: the framework's page
Unhandled == Resp(500, Str(<<"<!doctype html>">>))

\* an error raised inside the edit step that no handler of handle_message catches
edit_response_uncaught(e) ==
    IF e.raised THEN Unhandled
    ELSE IF ~Truthy(e.ret) THEN EditFailed
    ELSE Resp(200, e.ret)

\* a response that tells the parsed document from None by identity, not by truth value
edit_response_none_only(e) ==
    IF e.raised THEN InternalError("UnboundLocalError")
    ELSE IF e.ret = None THEN EditFailed
    ELSE Resp(200, e.ret)

\* lines 275-282 and 286-287: the response after the edit step
edit_response(e) ==
    IF e.raised THEN InternalError("UnboundLocalError")
    ELSE IF ~Truthy(e.ret) THEN EditFailed
    ELSE Resp(200, e.ret)

\* an edit step that saves the updated document in the Values Store
EditCallWritingBack(r) ==
    /\ pc[r] = "edit"
    /\ \E ans \in EditOffered(current_values[r]) : \E jsonError \in EditJsonErrors(ans) :
       LET e == apply_configuration_change(ans, jsonError) IN
        /\ calls' = [calls EXCEPT ![r] = Append(@, Call("provider", "edit", "", ans, jsonError))]
        /\ updated_values' = [updated_values EXCEPT ![r] = e.ret]
        /\ diag' = [diag EXCEPT ![r] = [kind |-> e.diag, preview |-> e.preview]]
        /\ response' = [response EXCEPT ![r] = edit_response(e)]
        /\ valuesFiles' = IF ~e.raised /\ Truthy(e.ret)
                          THEN [valuesFiles EXCEPT ![app_name[r]] = File(e.ret)]
                          ELSE valuesFiles
    /\ pc' = [pc EXCEPT ![r] = "done"]
    /\ UNCHANGED <<schemaFiles, startup, request, json_data, user_input, app_name, schema,
                   current_values>>

\* lines 272-282 (with 179-221 of apply_configuration_change)
EditCall(r) ==
    /\ pc[r] = "edit"
    /\ \E ans \in EditOffered(current_values[r]) : \E jsonError \in EditJsonErrors(ans) :
       LET e == apply_configuration_change(ans, jsonError) IN
        /\ calls' = [calls EXCEPT ![r] = Append(@, Call("provider", "edit", "", ans, jsonError))]
        /\ updated_values' = [updated_values EXCEPT ![r] = e.ret]
        /\ diag' = [diag EXCEPT ![r] = [kind |-> e.diag, preview |-> e.preview]]
        /\ response' = [response EXCEPT ![r] = edit_response(e)]
    /\ pc' = [pc EXCEPT ![r] = "done"]
    /\ UNCHANGED <<stores, startup, request, json_data, user_input, app_name, schema, current_values>>

\* the worker is free again once its response is sent: nothing of the request is kept
NextRequest(r) ==
    /\ pc[r] = "done"
    /\ pc' = [pc EXCEPT ![r] = "idle"]
    /\ request' = [request EXCEPT ![r] = NoRequest]
    /\ json_data' = [json_data EXCEPT ![r] = NoData]
    /\ user_input' = [user_input EXCEPT ![r] = Null]
    /\ app_name' = [app_name EXCEPT ![r] = NotIdentified]
    /\ schema' = [schema EXCEPT ![r] = Null]
    /\ current_values' = [current_values EXCEPT ![r] = Null]
    /\ updated_values' = [updated_values EXCEPT ![r] = None]
    /\ diag' = [diag EXCEPT ![r] = NoDiag]
    /\ response' = [response EXCEPT ![r] = NoResponse]
    /\ calls' = [calls EXCEPT ![r] = <<>>]
    /\ UNCHANGED <<stores, startup>>

Next ==
    \E r \in Req :
        \/ ReceiveRequest(r)
        \/ ClassifyCall(r)
        \/ FetchSchema(r)
        \/ FetchValues(r)
        \/ EditCall(r)
        \/ NextRequest(r)

Spec == Init /\ [][Next]_vars

\* the same requests, handled by every worker side by side
SpecConcurrent == InitConcurrent /\ [][Next]_vars


(***************************************************************************)
(* The main block (lines 294-308): wait_for_ollama, ensure_model_pulled,   *)
(* app.run. No request is handled before app.run.                          *)
(***************************************************************************)
InitStartup ==
    /\ schemaFiles = [a \in Apps |-> File(SchemaDoc)]
    /\ valuesFiles = ValuesByApp
    /\ pc = [r \in Req |-> "off"]
    /\ \E m \in RetryCounts : startup = Main("main", m, 0, 0, 0, NoAnswer, NotYet, NotYet)
    /\ Fresh

\* a loop that sleeps after its last probe too and so comes to one more turn
probe_sleeping_last(m, ans) ==
    LET n == [m EXCEPT !.probes = @ + 1, !.last = ans] IN
    IF ans.net = "ok" /\ ans.status = 200 THEN [n EXCEPT !.pc = "returned", !.ready = "true"]
    ELSE IF m.i < m.max_retries THEN [n EXCEPT !.pc = "sleep"]
    ELSE [n EXCEPT !.pc = "returned", !.ready = "false"]

\* lines 18-31, one turn of the loop from the probe to the choice of what comes next
probe(m, ans) ==
    LET n == [m EXCEPT !.probes = @ + 1, !.last = ans] IN
    IF ans.net = "ok" /\ ans.status = 200 THEN [n EXCEPT !.pc = "returned", !.ready = "true"]
    ELSE IF m.i < m.max_retries - 1 THEN [n EXCEPT !.pc = "sleep"]
    ELSE [n EXCEPT !.pc = "returned", !.ready = "false"]

\* lines 37-69: the model is listed, or pulled; every error ends in False
ensure_model_pulled(tags, listed, pull) ==
    IF tags.net # "ok" THEN "false"
    ELSE IF tags.status = 200 /\ ~tags.json THEN "false"
    ELSE IF tags.status = 200 /\ listed THEN "true"
    ELSE IF pull.net # "ok" THEN "false"
    ELSE IF ~pull.json THEN "false"
    ELSE "true"

\* lines 305 and 17: wait_for_ollama is called; range(max_retries) may be empty
EnterWait ==
    /\ startup.pc = "main"
    /\ startup' = IF startup.max_retries > 0 THEN [startup EXCEPT !.pc = "probe"]
                  ELSE [startup EXCEPT !.pc = "returned", !.ready = "false"]
    /\ UNCHANGED <<stores, pc, locals, response, calls>>

\* lines 18-24 and 26, 30-31
Probe ==
    /\ startup.pc = "probe"
    /\ \E ans \in ProbeAnswers : startup' = probe(startup, ans)
    /\ UNCHANGED <<stores, pc, locals, response, calls>>

\* lines 27-28, and the loop's next turn
Sleep ==
    /\ startup.pc = "sleep"
    /\ startup' = [startup EXCEPT !.pc = "probe", !.sleeps = @ + 1, !.i = @ + 1]
    /\ UNCHANGED <<stores, pc, locals, response, calls>>

\* lines 305-306: the wait returned True
Provision ==
    /\ startup.pc = "returned" /\ startup.ready = "true"
    /\ \E tags \in ProbeAnswers, listed \in BOOLEAN, pull \in PullAnswers :
          startup' = [startup EXCEPT !.pc = "pulled",
                                     !.pulled = ensure_model_pulled(tags, listed, pull)]
    /\ UNCHANGED <<stores, pc, locals, response, calls>>

\* line 308: app.run, after the provisioning or right after a wait that returned False
Listen ==
    /\ \/ startup.pc = "pulled"
       \/ startup.pc = "returned" /\ startup.ready = "false"
    /\ startup' = [startup EXCEPT !.pc = "listening"]
    /\ UNCHANGED <<stores, pc, locals, response, calls>>

NextStartup == EnterWait \/ Probe \/ Sleep \/ Provision \/ Listen

\* the main block is one thread that runs on: every probe is bounded by its timeout,
\* every sleep by its delay
SpecStartup == InitStartup /\ [][NextStartup]_vars /\ WF_vars(NextStartup)


(***************************************************************************)
(* Vocabulary of the properties.                                           *)
(***************************************************************************)
Started(r) == pc[r] \notin {"off", "idle"}
Done(r) == pc[r] = "done"

CallIdx(r, svc, op) == {i \in DOMAIN calls[r] : calls[r][i].svc = svc /\ calls[r][i].op = op}
NumCalls(r, svc, op) == Cardinality(CallIdx(r, svc, op))
TheCall(r, svc, op) == calls[r][CHOOSE i \in CallIdx(r, svc, op) : TRUE]

\* the word occurs in the text, letter case of the text ignored
Occurs(text, word) ==
    \E i \in 0..(Len(text) - Len(word)) :
        \A j \in 1..Len(word) : LowerChar(text[i + j]) = word[j]

\* the first of tournament, matchmaking, chat for which has(word) holds
FirstKeyword(has(_)) ==
    IF has(tournament) THEN "tournament"
    ELSE IF has(matchmaking) THEN "matchmaking"
    ELSE IF has(chat) THEN "chat"
    ELSE NotIdentified

HasTextInput(r) == Started(r) /\ user_input[r].t = "str"
InputHas(r, word) == Occurs(user_input[r].s, word)
KeywordFree(r) ==
    HasTextInput(r) /\ ~InputHas(r, tournament) /\ ~InputHas(r, matchmaking) /\ ~InputHas(r, chat)

\* the answer carries a completion text
IsCompletion(ans) ==
    /\ ans.net = "ok" /\ ans.status = 200 /\ ans.json /\ ans.val.t = "obj"
    /\ HasKey(ans.val, K_response) /\ Get(ans.val, K_response).t = "str"
TextOf(ans) == Get(ans.val, K_response).s

ErrorOf(resp) == GetOr(resp.body, K_error, Null)

\* C1: an input whose lower-cased text contains a keyword resolves to the first of
\* tournament, matchmaking, chat that occurs in it, and the Completion Provider is
\* not called for the identification.
C1_KeywordFastPath ==
    \A r \in Req :
        LET has(word) == InputHas(r, word) IN
        (HasTextInput(r) /\ FirstKeyword(has) # NotIdentified) =>
            /\ app_name[r] = FirstKeyword(has)
            /\ pc[r] # "classify"
            /\ NumCalls(r, "provider", "classify") = 0

\* an input naming chat and tournament went to the Schema Store as tournament, uncalled provider
C1_Witness ==
    \E r \in Req :
        /\ pc[r] = "schema" /\ HasTextInput(r)
        /\ InputHas(r, chat) /\ InputHas(r, tournament)
        /\ app_name[r] = "tournament" /\ calls[r] = <<>>


\* the schema lookup of request r was answered with this status
SchemaAnswered(r, status) ==
    /\ NumCalls(r, "schema", "get") > 0
    /\ TheCall(r, "schema", "get").ans.net = "ok"
    /\ TheCall(r, "schema", "get").ans.status = status

\* C2 as stated: when an identifier was resolved and the Schema Store answers 404 with
\* an error payload, the response is 404 with a top-level error and that payload nested
\* under it, and neither the Values Store nor the Completion Provider is called in the
\* whole request.
C2_AsStated ==
    \A r \in Req :
        (SchemaAnswered(r, 404) /\ TheCall(r, "schema", "get").ans.json) =>
            /\ Done(r) /\ response[r].status = 404
            /\ ErrorOf(response[r]).t = "str"
            /\ HasKey(response[r].body, K_details)
            /\ Get(response[r].body, K_details) = TheCall(r, "schema", "get").ans.val
            /\ NumCalls(r, "values", "get") = 0
            /\ NumCalls(r, "provider", "classify") + NumCalls(r, "provider", "edit") = 0

\* C2 (amended): when an identifier was resolved and the Schema Store answers 404 with
\* a JSON error payload, the response is 404 with a top-level error message and that
\* payload nested under it; the Values Store is not called and no edit call is made.
\* The Completion Provider is called in the request only for the classification,
\* once and before the schema lookup, and exactly when the input has no keyword.
C2_SchemaNotFound ==
    \A r \in Req :
        (SchemaAnswered(r, 404) /\ TheCall(r, "schema", "get").ans.json) =>
            /\ Done(r) /\ response[r].status = 404
            /\ ErrorOf(response[r]) = Str(<<"Could not fetch schema for ", app_name[r]>>)
            /\ HasKey(response[r].body, K_details)
            /\ Get(response[r].body, K_details) = TheCall(r, "schema", "get").ans.val
            /\ NumCalls(r, "values", "get") = 0
            /\ NumCalls(r, "provider", "edit") = 0
            /\ NumCalls(r, "provider", "classify") = (IF KeywordFree(r) THEN 1 ELSE 0)
            /\ calls[r][Len(calls[r])].svc = "schema"

\* a request identified by the provider, then answered 404 by the Schema Store's handler
C2_Witness ==
    \E r \in Req :
        /\ Done(r) /\ response[r].status = 404
        /\ SchemaAnswered(r, 404)
        /\ TheCall(r, "schema", "get").ans = get_schema(schemaFiles, app_name[r])
        /\ NumCalls(r, "provider", "classify") = 1


(***************************************************************************)
(* The edit step.                                                          *)
(***************************************************************************)
EditCalled(r) == NumCalls(r, "provider", "edit") > 0
EditAnswer(r) == TheCall(r, "provider", "edit").ans
\* the edit call of request r was answered with a completion text
EditCompleted(r) == EditCalled(r) /\ IsCompletion(EditAnswer(r))

HasChar(text, c) == \E i \in 1..Len(text) : text[i] = c
NoBrace(text) == ~HasChar(text, "{") /\ ~HasChar(text, "}")

\* the text is the document, as the prompt renders it, between two pieces of prose
Echoes(text, doc) ==
    \E h \in EditHeads, t \in EditTails :
        NoBrace(h) /\ NoBrace(t) /\ text = h \o Dumps(doc, 0) \o t

\* C3: when the edit completion is the fetched Values Document wrapped in prose, the
\* response is 200 and its body is that document, whatever the document is.
C3_RoundTrip ==
    \A r \in Req :
        (EditCompleted(r) /\ Echoes(TextOf(EditAnswer(r)), current_values[r])) =>
            response[r] = Resp(200, current_values[r])

\* C3, non-empty documents only: the echo of a document with at least one member
\* is answered 200 with that document.
C3_NonEmptyRoundTrip ==
    \A r \in Req :
        (EditCompleted(r) /\ Echoes(TextOf(EditAnswer(r)), current_values[r])
            /\ current_values[r].m # {}) =>
            response[r] = Resp(200, current_values[r])

IsPrefix(p, text) == Len(p) <= Len(text) /\ SubSeq(text, 1, Len(p)) = p

\* C4 as stated: a completion without any brace fails as "no JSON located"; a completion
\* that contains an opening brace and cannot be turned into a document fails as
\* "malformed JSON", the branch that keeps a preview of the raw text.
C4_AsStated ==
    \A r \in Req :
        EditCompleted(r) =>
            LET text == TextOf(EditAnswer(r)) IN
            /\ NoBrace(text) => diag[r].kind = "nojson"
            /\ (HasChar(text, "{") /\ updated_values[r] = None) => diag[r].kind = "malformed"

\* C4 (amended): a completion that lacks a '{' or lacks a '}' (such as "no braces here"
\* and "{ malformed") fails as "no JSON located", with no preview; a completion that
\* contains both and cannot be turned into a document fails as "malformed JSON" and
\* keeps the first PreviewLen characters of the stripped text; both end in the edit
\* failure response.
C4_EditFailureKinds ==
    \A r \in Req :
        EditCompleted(r) =>
            LET text == TextOf(EditAnswer(r)) IN
            /\ (~HasChar(text, "{") \/ ~HasChar(text, "}")) =>
                  /\ diag[r] = [kind |-> "nojson", preview |-> <<>>]
                  /\ updated_values[r] = None
                  /\ response[r] = EditFailed
            /\ (HasChar(text, "{") /\ HasChar(text, "}") /\ updated_values[r] = None) =>
                  /\ diag[r].kind = "malformed"
                  /\ IsPrefix(diag[r].preview, Strip(text))
                  /\ Len(diag[r].preview) =
                        (IF Len(Strip(text)) < PreviewLen THEN Len(Strip(text)) ELSE PreviewLen)
                  /\ response[r] = EditFailed

\* "{ malformed": an opening brace, no closing one, reported as no JSON located
C4_Witness ==
    \E r \in Req :
        /\ EditCompleted(r)
        /\ HasChar(TextOf(EditAnswer(r)), "{") /\ ~HasChar(TextOf(EditAnswer(r)), "}")
        /\ diag[r].kind = "nojson" /\ response[r] = EditFailed

\* a malformed completion longer than the preview: the preview is cut
C4_CutPreview ==
    \E r \in Req :
        /\ EditCompleted(r) /\ diag[r].kind = "malformed"
        /\ Len(diag[r].preview) = PreviewLen
        /\ Len(Strip(TextOf(EditAnswer(r)))) > PreviewLen

FirstOf(text, c) == CHOOSE i \in 1..Len(text) : text[i] = c /\ \A j \in 1..(i - 1) : text[j] # c
LastOf(text, c) == CHOOSE i \in 1..Len(text) : text[i] = c /\ \A j \in (i + 1)..Len(text) : text[j] # c

Enclosed(b) == b # <<>> /\ b[1] = "{" /\ b[Len(b)] = "}"

\* C5: for a completion that contains a '{' and a '}', apply_configuration_change parses
\* exactly the text from the first '{' to the last '}' and returns the parsed value when
\* it is valid JSON (None otherwise); prose without braces around an enclosed body does
\* not change the result.
C5_GreedySlice ==
    \A r \in Req :
        (EditCompleted(r) /\ HasChar(TextOf(EditAnswer(r)), "{")
                          /\ HasChar(TextOf(EditAnswer(r)), "}")) =>
            LET text == TextOf(EditAnswer(r))
                parsed == Loads(SubSeq(text, FirstOf(text, "{"), LastOf(text, "}")))
            IN /\ updated_values[r] = (IF parsed.ok THEN parsed.v ELSE None)
               /\ parsed.ok <=> diag[r].kind = "parsed"
               /\ \A h \in EditHeads, t \in EditTails :
                    \A b \in EditBodies \cup {Dumps(current_values[r], 0)} :
                      (text = h \o b \o t /\ NoBrace(h) /\ NoBrace(t) /\ Enclosed(b)) =>
                          updated_values[r] = (IF Loads(b).ok THEN Loads(b).v ELSE None)

\* a valid document followed by prose that holds a '}': the slice reaches into the
\* prose and nothing is returned
C5_Witness ==
    \E r \in Req :
        /\ EditCompleted(r) /\ updated_values[r] = None /\ diag[r].kind = "malformed"
        /\ \E h \in EditHeads, t \in EditTails, b \in EditBodies :
              /\ TextOf(EditAnswer(r)) = h \o b \o t
              /\ NoBrace(h) /\ HasChar(t, "}") /\ Loads(b).ok

\* a nested document in prose is returned whole
C5_NestedReturned ==
    \E r \in Req :
        /\ EditCompleted(r) /\ response[r].status = 200
        /\ \E p \in updated_values[r].m : p[2].t = "obj"
        /\ ~Enclosed(TextOf(EditAnswer(r)))


(***************************************************************************)
(* The classification call.                                                *)
(***************************************************************************)
Classified(r) == NumCalls(r, "provider", "classify") > 0
ClassifyAnswer(r) == TheCall(r, "provider", "classify").ans

\* C6: when the input has no keyword and the Completion Provider is unreachable, times
\* out or answers with a non-success status during classification, the request ends
\* with status 400, 'Could not identify application from request' and the hint that
\* lists the three identifiers, not with 'Service communication error', and no store
\* is called.
C6_ClassificationFailure ==
    \A r \in Req :
        (Classified(r) /\ (ClassifyAnswer(r).net # "ok" \/ ClassifyAnswer(r).status # 200)) =>
            /\ KeywordFree(r)
            /\ Done(r)
            /\ response[r].status = 400
            /\ ErrorOf(response[r]) = Str(<<"Could not identify application from request">>)
            /\ GetOr(response[r].body, K_hint, Null)
                  = Str(<<"Please mention one of: chat, matchmaking, or tournament">>)
            /\ NumCalls(r, "schema", "get") = 0
            /\ NumCalls(r, "values", "get") = 0
            /\ Len(calls[r]) = 1

\* a classification call that timed out, answered 400
C6_Witness ==
    \E r \in Req :
        /\ Classified(r) /\ ClassifyAnswer(r) = NetFail("timeout")
        /\ Done(r) /\ response[r] = CouldNotIdentify

\* the letters a-z of the lower-cased text, in order
Cleaned(text) == SelectSeq(Lower(text), IsLowerAZ)

\* C7: for an input without keyword the Completion Provider is called exactly once for
\* the identification, and the result is the first of tournament, matchmaking, chat
\* that occurs in the completion once it is lower-cased and stripped of every
\* character outside a-z, or 'not identified' when none occurs.
C7_ClassifyOnce ==
    \A r \in Req :
        KeywordFree(r) =>
            /\ NumCalls(r, "provider", "classify") = (IF pc[r] = "classify" THEN 0 ELSE 1)
            /\ pc[r] # "classify" =>
                  /\ calls[r][1].op = "classify"
                  /\ IsCompletion(ClassifyAnswer(r)) =>
                        LET has(word) == Contains(Cleaned(TextOf(ClassifyAnswer(r))), word)
                        IN app_name[r] = FirstKeyword(has)
                  /\ ~IsCompletion(ClassifyAnswer(r)) => app_name[r] = NotIdentified
                  /\ app_name[r] = NotIdentified => (Done(r) /\ response[r] = CouldNotIdentify)
                  /\ app_name[r] # NotIdentified => NumCalls(r, "schema", "get") = 1 \/ pc[r] = "schema"

\* a completion that spells tournament only after cleaning resolved the request
C7_Witness ==
    \E r \in Req :
        /\ KeywordFree(r) /\ Classified(r) /\ IsCompletion(ClassifyAnswer(r))
        /\ ~Occurs(TextOf(ClassifyAnswer(r)), tournament)
        /\ app_name[r] = "tournament" /\ pc[r] = "schema"


(***************************************************************************)
(* The store lookups.                                                      *)
(***************************************************************************)
StoreNames == {"schema", "values"}
Looked(r, store) == NumCalls(r, store, "get") > 0
StoreAnswer(r, store) == TheCall(r, store, "get").ans
NotFoundMessage(r, store) ==
    Str(<<(IF store = "schema" THEN "Could not fetch schema for "
           ELSE "Could not fetch values for "), app_name[r]>>)
\* the error message starts with this piece
ErrorStarts(resp, piece) ==
    ErrorOf(resp).t = "str" /\ ErrorOf(resp).s # <<>> /\ ErrorOf(resp).s[1] = piece
LastCallIs(r, store) == calls[r] # <<>> /\ calls[r][Len(calls[r])].svc = store

\* C8 as stated: every non-200 answer of a store, whatever its status and body, ends
\* the request with 404, a message naming the store and the store's payload as nested
\* detail; every transport failure of a store call ends it with the 500
\* 'Service communication error'.
C8_AsStated ==
    \A r \in Req : \A store \in StoreNames :
        Looked(r, store) =>
            LET ans == StoreAnswer(r, store) IN
            /\ (ans.net = "ok" /\ ans.status # 200) =>
                  /\ Done(r) /\ response[r].status = 404
                  /\ ErrorOf(response[r]) = NotFoundMessage(r, store)
                  /\ GetOr(response[r].body, K_details, Null) = ans.val
            /\ ans.net # "ok" =>
                  /\ Done(r) /\ response[r].status = 500
                  /\ ErrorStarts(response[r], "Service communication error: ")

\* C8, by kind of answer: a non-200 answer of a store that carries a JSON body ends the
\* request with 404, a message naming the store and that body as nested detail; a
\* non-200 answer whose body is not JSON ends it with 500 ('Service communication
\* error' or 'Internal server error'); a transport failure of a store call ends it
\* with the 500 'Service communication error'. The store call is then the last call.
C8_StoreFailures ==
    \A r \in Req : \A store \in StoreNames :
        Looked(r, store) =>
            LET ans == StoreAnswer(r, store) IN
            /\ (ans.net = "ok" /\ ans.status # 200 /\ ans.json) =>
                  /\ Done(r) /\ response[r].status = 404
                  /\ ErrorOf(response[r]) = NotFoundMessage(r, store)
                  /\ HasKey(response[r].body, K_details)
                  /\ Get(response[r].body, K_details) = ans.val
                  /\ LastCallIs(r, store)
            /\ (ans.net = "ok" /\ ans.status # 200 /\ ~ans.json) =>
                  /\ Done(r) /\ response[r].status = 500
                  /\ \/ ErrorStarts(response[r], "Service communication error: ")
                     \/ ErrorStarts(response[r], "Internal server error: ")
                  /\ LastCallIs(r, store)
            /\ ans.net # "ok" =>
                  /\ Done(r) /\ response[r].status = 500
                  /\ ErrorStarts(response[r], "Service communication error: ")
                  /\ LastCallIs(r, store)

\* the Values Store's handler answered 500 for an unparsable file: reported as 404
\* with the handler's payload
C8_Witness ==
    \E r \in Req :
        /\ Done(r) /\ Looked(r, "values")
        /\ StoreAnswer(r, "values") = get_values(valuesFiles, app_name[r])
        /\ StoreAnswer(r, "values").status = 500
        /\ response[r] = ValuesNotFound(app_name[r], StoreAnswer(r, "values").val)

\* a store that could not be reached: the communication error
C8_TransportWitness ==
    \E r \in Req :
        /\ Done(r) /\ Looked(r, "schema") /\ StoreAnswer(r, "schema").net = "unreachable"
        /\ response[r] = CommunicationError("unreachable")

(***************************************************************************)
(* The request boundary.                                                   *)
(***************************************************************************)
\* the body has no "input" field: no JSON body, or a JSON value without that key
LacksInput(body) == ~body.json \/ body.val.t # "obj" \/ ~HasKey(body.val, K_input)

\* C9: a request whose body has no "input" field (absent body, empty object, or any
\* JSON value lacking that key) is answered 400 with the missing-input error, and no
\* collaborator is called for it.
C9_MissingInput ==
    \A r \in Req :
        (Started(r) /\ LacksInput(request[r])) =>
            /\ Done(r)
            /\ response[r] = MissingInput
            /\ calls[r] = <<>>

\* C9, the bodies that Python finds falsy or that are objects or strings without
\* "input": these are answered 400 with the missing-input error, uncalled collaborators
C9_FalsyOrObject ==
    \A r \in Req :
        (Started(r) /\ request[r].json
            /\ \/ ~Truthy(request[r].val)
               \/ request[r].val.t = "obj" /\ ~HasKey(request[r].val, K_input)
               \/ request[r].val.t = "str" /\ ~Occurs(request[r].val.s, K_input)) =>
            /\ Done(r) /\ response[r] = MissingInput /\ calls[r] = <<>>

Statuses == {200, 400, 404, 500}

\* C10: every request ends with exactly one JSON response whose status is 200, 400,
\* 404 or 500, for every body and every behaviour of the collaborators: a request
\* that is done has a response with a JSON object as body (carrying "error" unless
\* the status is 200), a request that is not done has none, and a request that has
\* started and is not done is at an outbound call.
C10_AlwaysOneJsonResponse ==
    \A r \in Req :
        /\ Done(r) =>
              /\ response[r].status \in Statuses
              /\ response[r].body.t = "obj"
              /\ response[r].status # 200 => ErrorOf(response[r]).t = "str"
        /\ ~Done(r) => response[r] = NoResponse
        /\ (Started(r) /\ ~Done(r)) => pc[r] \in {"classify", "schema", "values", "edit"}

\* the provider answered the edit call 200 with a body that is not JSON, and the
\* request still ended with a JSON 500
C10_Witness ==
    \E r \in Req :
        /\ Done(r) /\ EditCalled(r)
        /\ EditAnswer(r) = HttpText(200)
        /\ response[r] = InternalError("UnboundLocalError")


(***************************************************************************)
(* The documents of the stores.                                            *)
(***************************************************************************)
\* the document request r holds from a store is the one the store's answer carried
HoldsAsFetched(r) ==
    /\ (pc[r] \in {"values", "edit"} \/ (Done(r) /\ Looked(r, "values"))) =>
            schema[r] = StoreAnswer(r, "schema").val
    /\ (pc[r] = "edit" \/ (Done(r) /\ EditCalled(r))) =>
            current_values[r] = StoreAnswer(r, "values").val

\* every call of request r to a store is a read
ReadsOnly(r) ==
    \A i \in DOMAIN calls[r] : calls[r][i].svc \in StoreNames => calls[r][i].op = "get"

\* C11: whatever requests are handled and however they end, the files of the Schema
\* Store and of the Values Store never change: the Orchestrator sends the stores read
\* lookups only, holds the fetched documents as they were answered up to the response,
\* and never writes the updated document back.
C11_StoresUnchanged ==
    /\ [][schemaFiles' = schemaFiles /\ valuesFiles' = valuesFiles]_vars
    /\ [](\A r \in Req : ReadsOnly(r) /\ HoldsAsFetched(r))

\* a request answered 200 with a document that differs from the one fetched, while the
\* Values Store still holds the fetched one
C11_Witness ==
    \E r \in Req :
        /\ Done(r) /\ response[r].status = 200
        /\ response[r].body # current_values[r]
        /\ valuesFiles[app_name[r]] = File(current_values[r])
        /\ schemaFiles[app_name[r]] = File(schema[r])


(***************************************************************************)
(* Requests side by side.                                                  *)
(***************************************************************************)
BuildOf(d) == IF d.raised THEN "raises" ELSE "none"

\* handle_message run by itself: where it stands and what it holds after the body was
\* read, then after each answer of a log was given in order to the call it was at;
\* same tells that each call of the log is the call it makes there
AloneStart(body, flask) ==
    LET o == receive(body, flask) IN
    [pc |-> o.next, user_input |-> o.user_input, app_name |-> o.app_name, schema |-> Null,
     current_values |-> Null, updated_values |-> None, response |-> o.response, same |-> TRUE]

Issued(c, svc, op, key) == c.svc = svc /\ c.op = op /\ c.key = key

AloneStep(st, c) ==
    CASE st.pc = "classify" ->
            LET app == identify_from_answer(c.ans) IN
            [st EXCEPT !.app_name = app,
                       !.pc = IF app = NotIdentified THEN "done" ELSE "schema",
                       !.response = IF app = NotIdentified THEN CouldNotIdentify ELSE NoResponse,
                       !.same = @ /\ Issued(c, "provider", "classify", "")]
      [] st.pc = "schema" ->
            LET f == fetch_schema(st.app_name, c.ans, c.err) IN
            [st EXCEPT !.schema = f.doc, !.response = f.response,
                       !.pc = IF f.ok THEN "values" ELSE "done",
                       !.same = @ /\ Issued(c, "schema", "get", st.app_name)]
      [] st.pc = "values" ->
            LET f == fetch_values(st.app_name, c.ans, c.err) IN
            [st EXCEPT !.current_values = f.doc, !.response = f.response,
                       !.pc = IF f.ok THEN "edit" ELSE "done",
                       !.same = @ /\ Issued(c, "values", "get", st.app_name)]
      [] st.pc = "edit" ->
            LET e == apply_configuration_change(c.ans, c.err) IN
            [st EXCEPT !.updated_values = e.ret, !.response = edit_response(e), !.pc = "done",
                       !.same = @ /\ Issued(c, "provider", "edit", "")]
      [] OTHER -> [st EXCEPT !.same = FALSE]

RECURSIVE AloneAfter(_, _, _)
AloneAfter(st, log, i) ==
    IF i > Len(log) THEN st ELSE AloneAfter(AloneStep(st, log[i]), log, i + 1)

Alone(body, flask, log) == AloneAfter(AloneStart(body, flask), log, 1)

\* request r stands where the run by itself stands, holding what it holds
AsIfAlone(r) ==
    LET a == Alone(request[r], BuildOf(json_data[r]), calls[r]) IN
    /\ a.same
    /\ pc[r] = a.pc
    /\ response[r] = a.response
    /\ user_input[r] = a.user_input
    /\ app_name[r] = a.app_name
    /\ schema[r] = a.schema
    /\ current_values[r] = a.current_values
    /\ updated_values[r] = a.updated_values

\* the step leaves everything of request q as it is
Untouched(q) ==
    /\ pc'[q] = pc[q] /\ request'[q] = request[q] /\ json_data'[q] = json_data[q]
    /\ user_input'[q] = user_input[q] /\ app_name'[q] = app_name[q]
    /\ schema'[q] = schema[q] /\ current_values'[q] = current_values[q]
    /\ updated_values'[q] = updated_values[q] /\ diag'[q] = diag[q]
    /\ response'[q] = response[q] /\ calls'[q] = calls[q]

\* C12: when several requests are handled side by side, in every interleaving of their
\* steps, each request stands at every moment where it would stand had it run alone on
\* its body with the same answers to its calls (the same calls, the same identifier,
\* schema, values and completion, the same response), and every step touches the state
\* of one request only.
C12_AsIfAlone ==
    /\ [](\A r \in Req : Started(r) => AsIfAlone(r))
    /\ [][\E r \in Req : \A q \in Req \ {r} : Untouched(q)]_vars

\* one request answered 200 for one application while another, for another
\* application, is at its edit call
C12_Witness ==
    \E r \in Req : \E q \in Req \ {r} :
        /\ Done(r) /\ response[r].status = 200
        /\ pc[q] = "edit" /\ app_name[q] # app_name[r]
        /\ current_values[q] # current_values[r]


(***************************************************************************)
(* The course of one request.                                              *)
(***************************************************************************)
Steps == {<<"provider", "classify">>, <<"schema", "get">>, <<"values", "get">>,
          <<"provider", "edit">>}

\* the four terminal states of the request handler
Terminal(r) ==
    /\ Done(r)
    /\ \/ response[r] = CouldNotIdentify
       \/ response[r].status = 404
       \/ response[r] = EditFailed
       \/ response[r].status = 200

\* C13: within one request the classification call, the Schema Store lookup, the
\* Values Store lookup and the edit call are each issued at most once and no other call
\* is issued; each step of the request adds at most one call and never takes the
\* request back to a step it has left; once the request has its response (NotIdentified,
\* NotFound, EditFailed, EditSucceeded or any other) its calls stay as they are until
\* the worker takes the next request.
C13_NoRetry ==
    /\ [](\A r \in Req :
            /\ \A s \in Steps : NumCalls(r, s[1], s[2]) <= 1
            /\ \A i \in DOMAIN calls[r] : <<calls[r][i].svc, calls[r][i].op>> \in Steps)
    /\ [][\A r \in Req :
            /\ Len(calls'[r]) <= Len(calls[r]) + 1
            /\ (pc'[r] # pc[r] /\ pc[r] \in {"classify", "schema", "values", "edit"}) =>
                    /\ Len(calls'[r]) = Len(calls[r]) + 1
                    /\ pc'[r] \notin {"idle", "classify"}
                    /\ pc[r] \in {"schema", "values", "edit"} => pc'[r] # "schema"
                    /\ pc[r] \in {"values", "edit"} => pc'[r] # "values"
                    /\ pc[r] = "edit" => pc'[r] = "done"
            /\ Done(r) => (calls'[r] = calls[r] \/ (pc'[r] = "idle" /\ calls'[r] = <<>>))]_vars

\* a request that went through its four calls once each and reached the terminal
\* state EditFailed
C13_Witness ==
    \E r \in Req :
        /\ Terminal(r) /\ response[r] = EditFailed
        /\ \A s \in Steps : NumCalls(r, s[1], s[2]) = 1
        /\ EditAnswer(r).net = "timeout"
        /\ ClassifyAnswer(r).net = "ok"


(***************************************************************************)
(* The order of the calls.                                                 *)
(***************************************************************************)
\* the place of the call in the log of request r
PlaceOf(r, svc, op) == CHOOSE i \in CallIdx(r, svc, op) : TRUE

Answered200(ans) == ans.net = "ok" /\ ans.status = 200

\* the value holds the document, as itself or somewhere below a member
RECURSIVE HoldsDoc(_, _)
HoldsDoc(v, doc) ==
    \/ v = doc
    \/ v.t = "obj" /\ \E p \in v.m : HoldsDoc(p[2], doc)

\* the Schema Store is called only with a resolved identifier (after the
\* classification call, if there was one), the Values Store only after the Schema
\* Store answered 200, the edit call only after both stores answered 200
StrictOrder(r) ==
    /\ Looked(r, "schema") =>
            /\ app_name[r] \in Apps
            /\ Classified(r) => PlaceOf(r, "provider", "classify") < PlaceOf(r, "schema", "get")
    /\ Looked(r, "values") =>
            /\ Looked(r, "schema") /\ Answered200(StoreAnswer(r, "schema"))
            /\ PlaceOf(r, "schema", "get") < PlaceOf(r, "values", "get")
    /\ EditCalled(r) =>
            /\ Looked(r, "values") /\ Answered200(StoreAnswer(r, "values"))
            /\ Answered200(StoreAnswer(r, "schema"))
            /\ PlaceOf(r, "values", "get") < PlaceOf(r, "provider", "edit")
    /\ pc[r] = "schema" => app_name[r] \in Apps
    /\ pc[r] = "values" => Looked(r, "schema")
    /\ pc[r] = "edit" => Looked(r, "values")

\* the values lookup of request r, made after a schema lookup answered 200, failed
ValuesFailed(r) == Looked(r, "values") /\ ~Answered200(StoreAnswer(r, "values"))

\* C14 as stated: the calls follow the strict order, and whenever the values lookup
\* fails after a successful schema lookup the response is the values 404 error, holds
\* nothing of the fetched schema, and no edit call is made.
C14_AsStated ==
    \A r \in Req :
        /\ StrictOrder(r)
        /\ ValuesFailed(r) =>
              /\ Done(r) /\ response[r].status = 404
              /\ ErrorOf(response[r]) = NotFoundMessage(r, "values")
              /\ ~HoldsDoc(response[r].body, schema[r])
              /\ ~EditCalled(r)

\* C14 (amended): the calls follow the strict order; when the values lookup does not
\* yield a document after a successful schema lookup, the request ends there, no edit
\* call is made and the response holds nothing of the fetched schema; the response is
\* the values 404 error with the store's payload when the store answered a non-200
\* status with a JSON body, the 500 'Service communication error' when the call failed
\* in transport, and a 500 ('Service communication error' or 'Internal server error')
\* when the body of the answer is not JSON.
C14_StrictOrder ==
    \A r \in Req :
        /\ StrictOrder(r)
        /\ (Looked(r, "values") /\ pc[r] # "edit" /\ ~EditCalled(r)) =>
              LET ans == StoreAnswer(r, "values") IN
              /\ Done(r)
              /\ LastCallIs(r, "values")
              /\ schema[r] = StoreAnswer(r, "schema").val
              /\ ~HoldsDoc(response[r].body, schema[r])
              /\ ~Answered200(ans) \/ ~ans.json
              /\ (ans.net = "ok" /\ ans.status # 200 /\ ans.json) =>
                    response[r] = ValuesNotFound(app_name[r], ans.val)
              /\ ans.net # "ok" => response[r] = CommunicationError(ans.net)
              /\ (ans.net = "ok" /\ ~ans.json) =>
                    /\ response[r].status = 500
                    /\ \/ ErrorStarts(response[r], "Service communication error: ")
                       \/ ErrorStarts(response[r], "Internal server error: ")
        /\ ValuesFailed(r) => (Done(r) /\ ~EditCalled(r))

\* the schema was fetched, then the Values Store's handler answered 404: the response
\* is the values 404 error, without the schema
C14_Witness ==
    \E r \in Req :
        /\ Done(r) /\ Looked(r, "values")
        /\ schema[r] = SchemaDoc
        /\ StoreAnswer(r, "values") = get_values(valuesFiles, app_name[r])
        /\ StoreAnswer(r, "values").status = 404
        /\ response[r] = ValuesNotFound(app_name[r], StoreAnswer(r, "values").val)
        /\ ~EditCalled(r)

\* the schema was fetched, then the values lookup timed out: the communication error
C14_TimeoutWitness ==
    \E r \in Req :
        /\ Done(r) /\ Looked(r, "values") /\ schema[r] = SchemaDoc
        /\ StoreAnswer(r, "values") = NetFail("timeout")
        /\ response[r] = CommunicationError("timeout")


(***************************************************************************)
(* Failures of the edit step.                                              *)
(***************************************************************************)
\* the edit call of request r brought no document to return
EditStepFailed(r) == EditCalled(r) /\ response[r].status # 200

\* C15: every failure of the edit step ends the request with a JSON response of status
\* 500, and the service goes on; when the Completion Provider was unreachable, timed
\* out or answered a non-success status during the edit, and when the completion holds
\* no JSON or malformed JSON, that response is the edit failure ('Failed to apply
\* configuration change'), not the 'Service communication error' of the stores.
C15_EditFailures ==
    \A r \in Req :
        EditCalled(r) =>
            /\ Done(r) /\ LastCallIs(r, "provider")
            /\ response[r].status \in {200, 500}
            /\ response[r].status = 500 =>
                  /\ ErrorOf(response[r]).t = "str"
                  /\ ~ErrorStarts(response[r], "Service communication error: ")
            /\ (EditAnswer(r).net # "ok" \/ EditAnswer(r).status # 200) =>
                  response[r] = EditFailed
            /\ (EditCompleted(r) /\ diag[r].kind \in {"nojson", "malformed"}) =>
                  response[r] = EditFailed
            /\ (EditCompleted(r) /\ updated_values[r] = None) =>
                  diag[r].kind \in {"nojson", "malformed"}
            /\ response[r].status = 200 => (EditCompleted(r) /\ diag[r].kind = "parsed")

\* the provider could not be reached for the edit: the edit failure, and the worker
\* is there for the next request
C15_Witness ==
    \E r \in Req :
        /\ Done(r) /\ EditCalled(r) /\ EditAnswer(r) = NetFail("unreachable")
        /\ response[r] = EditFailed
        /\ ENABLED NextRequest(r)

\* the provider answered the edit with a non-success status: the edit failure
C15_StatusWitness ==
    \E r \in Req :
        /\ Done(r) /\ EditCalled(r) /\ EditAnswer(r).net = "ok" /\ EditAnswer(r).status = 502
        /\ response[r] = EditFailed


(***************************************************************************)
(* The keys of the lookups.                                                *)
(***************************************************************************)
\* the identifier the identification step of request r resolved: from the keywords of
\* the input, or else from the cleaned completion of the classification call
Resolved(r) ==
    LET inInput(word) == InputHas(r, word) IN
    IF FirstKeyword(inInput) # NotIdentified THEN FirstKeyword(inInput)
    ELSE IF Classified(r) /\ IsCompletion(ClassifyAnswer(r))
         THEN LET inAnswer(word) == Contains(Cleaned(TextOf(ClassifyAnswer(r))), word)
              IN FirstKeyword(inAnswer)
    ELSE NotIdentified

\* C16: every lookup sent to the Schema Store or the Values Store is keyed by one of
\* chat, matchmaking, tournament, and the lookups of one request use the same key,
\* the identifier its identification step resolved; the stores are never looked up
\* under anything else, and the calls to the Completion Provider carry no key.
C16_ClosedKeys ==
    \A r \in Req : \A i \in DOMAIN calls[r] :
        LET c == calls[r][i] IN
        /\ c.svc \in StoreNames =>
              /\ c.key \in Apps
              /\ HasTextInput(r)
              /\ c.key = Resolved(r)
              /\ c.key = app_name[r]
              /\ \A j \in DOMAIN calls[r] : calls[r][j].svc \in StoreNames => calls[r][j].key = c.key
        /\ c.svc \notin StoreNames => (c.svc = "provider" /\ c.key = "")

\* an input without keyword, a completion that spells matchmaking only once cleaned:
\* both stores were looked up under matchmaking
C16_Witness ==
    \E r \in Req :
        /\ KeywordFree(r) /\ Looked(r, "schema") /\ Looked(r, "values")
        /\ ~Occurs(TextOf(ClassifyAnswer(r)), matchmaking)
        /\ TheCall(r, "schema", "get").key = "matchmaking"
        /\ TheCall(r, "values", "get").key = "matchmaking"


(***************************************************************************)
(* The 200 responses.                                                      *)
(***************************************************************************)
\* what json.loads makes of the completion's text from its first '{' to its last '}'
SliceParsed(text) == Loads(SubSeq(text, FirstOf(text, "{"), LastOf(text, "}")))
HasSlice(text) == HasChar(text, "{") /\ HasChar(text, "}")

\* C17: every 200 response of a request carries a JSON object with at least one member,
\* the one parsed from the slice of the edit completion of that same request; a
\* completion whose slice parses to the empty object is answered with the 500 edit
\* failure; and no request is answered 200 without an edit call that was answered
\* with a completion.
C17_NonEmpty200 ==
    \A r \in Req :
        /\ response[r].status = 200 =>
              /\ Done(r) /\ EditCompleted(r) /\ LastCallIs(r, "provider")
              /\ HasSlice(TextOf(EditAnswer(r)))
              /\ SliceParsed(TextOf(EditAnswer(r))).ok
              /\ response[r].body = SliceParsed(TextOf(EditAnswer(r))).v
              /\ response[r].body = updated_values[r]
              /\ response[r].body.t = "obj" /\ response[r].body.m # {}
        /\ (EditCompleted(r) /\ HasSlice(TextOf(EditAnswer(r)))
                /\ SliceParsed(TextOf(EditAnswer(r))) = [ok |-> TRUE, v |-> Obj({})]) =>
              response[r] = EditFailed
        /\ (EditCompleted(r) /\ updated_values[r] = Obj({})) => response[r] = EditFailed

\* a completion in prose whose slice is the empty object: parsed, and answered 500
C17_Witness ==
    \E r \in Req :
        /\ Done(r) /\ EditCompleted(r)
        /\ ~Enclosed(TextOf(EditAnswer(r)))
        /\ diag[r].kind = "parsed" /\ updated_values[r] = Obj({})
        /\ response[r] = EditFailed


(***************************************************************************)
(* The readiness wait.                                                     *)
(***************************************************************************)
Returned == startup.pc \in {"returned", "pulled", "listening"}
Listening == startup.pc = "listening"

\* what holds of the wait at every moment: it probes at most max_retries times, has
\* slept once before each probe but the first, returns True exactly on a probe answered
\* 200 and False exactly when max_retries probes have failed
WaitBounded ==
    /\ startup.probes <= startup.max_retries
    /\ startup.pc = "main" => (startup.probes = 0 /\ startup.sleeps = 0)
    /\ startup.pc = "probe" =>
            /\ startup.i < startup.max_retries
            /\ startup.probes = startup.i /\ startup.sleeps = startup.i
            /\ startup.probes > 0 => ~Answered200(startup.last)
    /\ startup.pc = "sleep" =>
            /\ startup.i < startup.max_retries - 1
            /\ startup.probes = startup.i + 1 /\ startup.sleeps = startup.i
            /\ ~Answered200(startup.last)
    /\ Returned =>
            /\ startup.ready \in {"true", "false"}
            /\ startup.ready = "true" =>
                    /\ Answered200(startup.last)
                    /\ startup.probes = startup.i + 1
                    /\ startup.sleeps = startup.probes - 1
            /\ startup.ready = "false" =>
                    /\ startup.probes = startup.max_retries
                    /\ startup.probes > 0 => (~Answered200(startup.last)
                                               /\ startup.sleeps = startup.probes - 1)
                    /\ startup.probes = 0 => startup.sleeps = 0
    /\ ~Returned => startup.ready = NotYet

\* the model is provisioned exactly when the wait returned True
ProvisionedWhenReady ==
    /\ startup.pulled # NotYet => startup.ready = "true"
    /\ startup.pc \in {"pulled", "listening"} =>
            (startup.pulled # NotYet <=> startup.ready = "true")

\* a step probes no more once a probe was answered 200 or the wait has returned, and
\* a sleep is followed by a probe
NoProbeOnceAnswered ==
    /\ (startup.probes > 0 /\ Answered200(startup.last)) =>
            (startup'.probes = startup.probes /\ startup'.sleeps = startup.sleeps)
    /\ Returned =>
            /\ startup'.probes = startup.probes /\ startup'.sleeps = startup.sleeps
            /\ startup'.ready = startup.ready
    /\ startup'.sleeps # startup.sleeps =>
            (startup'.pc = "probe" /\ startup'.i < startup.max_retries)

\* C18: the readiness wait always terminates and the service comes to listen, whether
\* the wait returned True or False. wait_for_ollama probes the Completion Provider at
\* most max_retries times; it returns True at the first probe answered 200 and probes
\* no more; it returns False once max_retries probes have failed, by transport error or
\* by a status other than 200; it sleeps only between two probes, never after the
\* last one; and the model is provisioned only when the wait returned True.
C18_WaitTerminates ==
    /\ [](WaitBounded /\ ProvisionedWhenReady)
    /\ [][NoProbeOnceAnswered]_vars
    /\ <>Listening

\* the default wait failed all its probes: it returned False after max_retries probes
\* with a sleep between each two, the model was not provisioned, the service listens
C18_Witness ==
    /\ Listening /\ startup.ready = "false"
    /\ startup.max_retries = DefaultMaxRetries
    /\ startup.probes = DefaultMaxRetries /\ startup.sleeps = DefaultMaxRetries - 1
    /\ startup.last.net = "timeout"
    /\ startup.pulled = NotYet

\* the wait found the provider ready at its third probe: no probe after it, the model
\* was provisioned, the service listens
C18_ReadyWitness ==
    /\ Listening /\ startup.ready = "true"
    /\ startup.probes = 3 /\ startup.sleeps = 2
    /\ startup.pulled = "false"

=============================================================================
